---- MODULE Spec2Model ----
(***************************************************************************)
(* A model of src/main.py: the batch pipeline that merges log fragments,   *)
(* splits the merged text into entries, reconstructs order/settlement      *)
(* pairs into signed transactions, and enriches them with catalog          *)
(* metadata and a backward as-of market price.                             *)
(*                                                                         *)
(* Text is a sequence of symbols.  A symbol is one character ("\n", " ",   *)
(* "|", "-") or an atom standing for a run of characters holding none of   *)
(* the separators the code looks for (a timestamp, a message type, a       *)
(* word, a digit).  No atom is a prefix of another, so comparing two       *)
(* texts symbol by symbol is comparing them character by character; where  *)
(* a pattern looks inside a timestamp, the timestamp is spelled out.       *)
(* A nullable value is a sequence: <<>> is null (NaN/NaT), <<v>> is v.     *)
(***************************************************************************)
EXTENDS Integers, Sequences, FiniteSets, TLC

VARIABLES
    pc,          \* position of the run
    log_dir,     \* the log files of data/logs: [num, content], num = 0 for a non-numeric name
    k,           \* number of files the merge loop of parse_logs has read
    full_text,   \* parse_logs: the merged text
    frag_span,   \* where each file's content lies in full_text: <<first, last>>
    matches,     \* parse_logs: start offsets of the entry-boundary matches
    entries,     \* parse_logs: the reconstructed entries
    logs,        \* the DataFrame parse_logs returns (rows)
    sku_src,     \* data/skus/skus.json
    sku_df,      \* the DataFrame read_skus returns: [cols, rows]
    price_src,   \* data/market_prices/market_prices_*.parquet
    prices,      \* the DataFrame read_market_prices returns: [cols, rows]
    tx,          \* the DataFrame extract_transactions returns (rows)
    enriched,    \* the DataFrame enrich_transactions returns: [cols, rows]
    journal,     \* what the run logged and did, in order
    artifacts    \* the files written

vars == <<pc, log_dir, k, full_text, frag_span, matches, entries, logs, sku_src,
          sku_df, price_src, prices, tx, enriched, journal, artifacts>>

----------------------------------------------------------------------------
(* Symbols *)

NL == "\n"
SP == " "
BAR == "|"
DASH == "-"
Whitespace == {NL, SP}

TS1 == "2024-03-01 09:00:00"
TS2 == "2024-03-01 10:00:00"
TS3 == "2024-03-01 11:00:00"
TSBAD == "2024-13-01 10:00:00"
TimestampTokens == {TS1, TS2, TS3, TSBAD}
MessageTypes == {"ORDER", "RESULT", "TRANSACTION", "RESPONSE"}
DigitTokens == {"0", "1", "3", "5"}
\* a run of twenty digits: more than a 64-bit integer holds
BIGNUM == "99999999999999999999"

\* the order of the symbols as characters (by their first character)
SymRank(s) ==
    CASE s = NL -> 1
      [] s = SP -> 2
      [] s = DASH -> 3
      [] s = "0" -> 4
      [] s = "1" -> 5
      [] s = "2" -> 6
      [] s \in TimestampTokens -> 6
      [] s = "3" -> 7
      [] s = "4" -> 8
      [] s = "5" -> 9
      [] s = "9" -> 10
      [] s = BIGNUM -> 10
      [] s = ":" -> 11
      [] s = "A" -> 12
      [] s = "B" -> 13
      [] s = "ORDER" -> 14
      [] s = "RESPONSE" -> 15
      [] s = "RESULT" -> 16
      [] s = "T1" -> 17
      [] s = "T2" -> 18
      [] s = "TRANSACTION" -> 19
      [] s = "buy" -> 20
      [] s = "sell" -> 21
      [] s = "x" -> 22
      [] s = BAR -> 23
      [] OTHER -> 24

None == <<>>
Some(v) == <<v>>
IsNull(o) == o = <<>>
Val(o) == o[1]

Min(S) == CHOOSE x \in S : \A y \in S : x <= y
Max(S) == CHOOSE x \in S : \A y \in S : x >= y

RECURSIVE SetToSortedSeq(_)
SetToSortedSeq(S) ==
    IF S = {} THEN <<>> ELSE <<Min(S)>> \o SetToSortedSeq(S \ {Min(S)})

RECURSIVE SeqsUpTo(_, _)
\* the sequences of at most n members of S
SeqsUpTo(S, n) ==
    IF n = 0 THEN {<<>>}
    ELSE {<<>>} \cup {<<x>> \o r : x \in S, r \in SeqsUpTo(S, n - 1)}

Range(s) == {s[i] : i \in 1..Len(s)}

\* pd.DataFrame(): a frame of no column and no row
EmptyFrame == [cols |-> {}, rows |-> <<>>]

----------------------------------------------------------------------------
(* parse_logs *)

EndsWithNL(s) == s # <<>> /\ s[Len(s)] = NL

\* one iteration of the merge loop
MergeStep(text, file_content) ==
    IF text # <<>> /\ ~EndsWithNL(text)
    THEN text \o file_content
    ELSE text \o <<NL>> \o file_content

\* sorted(glob(...), key=int(re.search(...).group(1))): the numeric order
\* of the names; a name without a number has no match to take group(1) of
RECURSIVE SortByNum(_)
SortByNum(files) ==
    IF files = {} THEN <<>>
    ELSE LET f == CHOOSE f \in files : \A g \in files : f.num <= g.num
         IN <<f>> \o SortByNum(files \ {f})

LogFilesRaises(dir) == \E i \in 1..Len(dir) : dir[i].num = 0
LogFiles(dir) == SortByNum(Range(dir))

\* entry_start_pattern matches at offset p
BoundaryAt(text, p) ==
    /\ p + 6 <= Len(text)
    /\ (p = 1 \/ text[p - 1] = NL)
    /\ text[p] \in TimestampTokens
    /\ text[p + 1] = SP
    /\ text[p + 2] = BAR
    /\ text[p + 3] = SP
    /\ text[p + 4] \in MessageTypes
    /\ text[p + 5] = SP
    /\ text[p + 6] = BAR

Finditer(text) == SetToSortedSeq({p \in 1..Len(text) : BoundaryAt(text, p)})

RECURSIVE LStrip(_)
LStrip(s) == IF s # <<>> /\ Head(s) \in Whitespace THEN LStrip(Tail(s)) ELSE s
RECURSIVE RStrip(_)
RStrip(s) ==
    IF s # <<>> /\ s[Len(s)] \in Whitespace THEN RStrip(SubSeq(s, 1, Len(s) - 1)) ELSE s
Strip(s) == RStrip(LStrip(s))
ReplaceNL(s) == [i \in 1..Len(s) |-> IF s[i] = NL THEN SP ELSE s[i]]

\* full_text[start:end].strip().replace("\n", " ") of match i
EntryOf(text, ms, i) ==
    LET start == ms[i]
        end == IF i + 1 <= Len(ms) THEN ms[i + 1] ELSE Len(text) + 1
    IN ReplaceNL(Strip(SubSeq(text, start, end - 1)))

\* the loop stops one match early
BuildEntriesShort(text, ms) == [i \in 1..(Len(ms) - 1) |-> EntryOf(text, ms, i)]

BuildEntries(text, ms) == [i \in 1..Len(ms) |-> EntryOf(text, ms, i)]

MaxSplit == 3
NumFields == 4

SepAt(s, i) == i + 2 <= Len(s) /\ s[i] = SP /\ s[i + 1] = BAR /\ s[i + 2] = SP
FirstSep(s) ==
    LET I == {i \in 1..Len(s) : SepAt(s, i)} IN IF I = {} THEN 0 ELSE Min(I)

RECURSIVE Split(_, _)
\* str.split(" | ", maxsplit)
Split(s, maxsplit) ==
    LET i == FirstSep(s)
    IN IF maxsplit = 0 \/ i = 0 THEN <<s>>
       ELSE <<SubSeq(s, 1, i - 1)>> \o Split(SubSeq(s, i + 3, Len(s)), maxsplit - 1)

\* pd.to_datetime(..., errors="coerce") of one cell
ToDatetime(s) ==
    IF s = <<TS1>> THEN Some(1)
    ELSE IF s = <<TS2>> THEN Some(2)
    ELSE IF s = <<TS3>> THEN Some(3)
    ELSE None

KeepsEntry(parts) == Len(parts) = NumFields

RECURSIVE SplitRecordsPadded(_)
\* every entry is kept, a short one filled up with empty fields
SplitRecordsPadded(es) ==
    IF es = <<>> THEN <<>>
    ELSE LET parts == Split(Head(es), MaxSplit)
         IN <<[i \in 1..NumFields |-> IF i <= Len(parts) THEN parts[i] ELSE <<>>]>>
                \o SplitRecordsPadded(Tail(es))

RECURSIVE SplitRecords(_)
\* the records loop: the entries of four fields, in order
SplitRecords(es) ==
    IF es = <<>> THEN <<>>
    ELSE LET parts == Split(Head(es), MaxSplit)
         IN (IF KeepsEntry(parts) THEN <<parts>> ELSE <<>>) \o SplitRecords(Tail(es))

LogRow(parts) ==
    [timestamp |-> ToDatetime(parts[1]), message_type |-> parts[2],
     trace_id |-> parts[3], details |-> parts[4]]

ToLogsFrame(records) == [i \in 1..Len(records) |-> LogRow(records[i])]

----------------------------------------------------------------------------
(* extract_transactions *)

ActionTokens == {"buy", "sell"}
AllDigits == DigitTokens \cup {"2", "4", "9", BIGNUM}

\* the characters of a timestamp atom: the order pattern looks inside it
\* (its digits are digits to \d, its space is a space to \s)
TimestampChars(t) ==
    <<"2", "0", "2", "4", DASH>>
        \o (IF t = TSBAD THEN <<"1", "3">> ELSE <<"0", "3">>)
        \o <<DASH, "0", "1", SP>>
        \o (IF t = TS1 THEN <<"0", "9">> ELSE IF t = TS3 THEN <<"1", "1">> ELSE <<"1", "0">>)
        \o <<":", "0", "0", ":", "0", "0">>

RECURSIVE Spell(_)
\* the details with every timestamp atom spelled out
Spell(d) ==
    IF d = <<>> THEN <<>>
    ELSE (IF Head(d) \in TimestampTokens THEN TimestampChars(Head(d)) ELSE <<Head(d)>>)
             \o Spell(Tail(d))

\* the first offset >= i that holds no space (Len(d) + 1 when there is none)
SkipSpaces(d, i) == Min({j \in i..Len(d) : d[j] # SP} \cup {Len(d) + 1})
\* the last offset of the run of non-space symbols that starts at i
RunEnd(d, i) == Min({j \in i..Len(d) : j = Len(d) \/ d[j + 1] = SP})
\* the last offset of the run of digits that starts at i
DigitsEnd(d, i) == Min({j \in i..Len(d) : j = Len(d) \/ d[j + 1] \notin AllDigits})

\* (buy|sell)\s+(\S+)\s+(\d+) matches with its first group at offset i
OrderMatchAt(d, i) ==
    /\ d[i] \in ActionTokens
    /\ i + 1 <= Len(d) /\ d[i + 1] = SP
    /\ LET a == SkipSpaces(d, i + 1)
       IN /\ a <= Len(d)
          /\ LET b == RunEnd(d, a)
                 c == SkipSpaces(d, b + 1)
             IN b + 1 <= Len(d) /\ c <= Len(d) /\ d[c] \in AllDigits

\* Series.str.extract: the groups of the first match, or NaN in each column
ExtractOrder(details) ==
    LET d == Spell(details)
        I == {i \in 1..Len(d) : OrderMatchAt(d, i)}
    IN IF I = {} THEN [action |-> None, sku |-> None, quantity |-> None]
       ELSE LET i == Min(I)
                a == SkipSpaces(d, i + 1)
                b == RunEnd(d, a)
                c == SkipSpaces(d, b + 1)
            IN [action |-> Some(d[i]), sku |-> Some(SubSeq(d, a, b)),
                quantity |-> Some(SubSeq(d, c, DigitsEnd(d, c)))]

DigitVal(t) ==
    CASE t = "0" -> 0 [] t = "1" -> 1 [] t = "2" -> 2 [] t = "3" -> 3
      [] t = "4" -> 4 [] t = "5" -> 5 [] OTHER -> 9

RECURSIVE AsInt(_)
\* int() of a string of digits
AsInt(q) == IF q = <<>> THEN 0 ELSE 10 * AsInt(SubSeq(q, 1, Len(q) - 1)) + DigitVal(q[Len(q)])

\* astype(int) raises OverflowError on a number a 64-bit integer cannot hold
FitsInt64(q) == \A i \in 1..Len(q) : q[i] # BIGNUM

\* the sign adjustment is left out
SignedQuantityUnadjusted(action, quantity) == quantity

\* orders.loc[orders["action"] == "buy", "quantity"] *= -1
SignedQuantity(action, quantity) == IF action = "buy" THEN -1 * quantity ELSE quantity

IsOrderRow(r) == r.message_type = <<"ORDER">>
IsTransactionRow(r) == r.message_type = <<"TRANSACTION">>

\* the ORDER rows with the extracted columns, after dropna(subset=["sku", "quantity"])
ParsedOrders(lg) ==
    LET Parsed(r) == ~IsNull(ExtractOrder(r.details).sku)
                     /\ ~IsNull(ExtractOrder(r.details).quantity)
        rows == SelectSeq(SelectSeq(lg, IsOrderRow), Parsed)
    IN [i \in 1..Len(rows) |->
          LET x == ExtractOrder(rows[i].details)
          IN [timestamp |-> rows[i].timestamp, message_type |-> rows[i].message_type,
              trace_id |-> rows[i].trace_id, details |-> rows[i].details,
              action |-> Val(x.action), sku |-> Val(x.sku), quantity |-> Val(x.quantity)]]

Settlements(lg) ==
    LET rows == SelectSeq(lg, IsTransactionRow)
    IN [i \in 1..Len(rows) |->
          [trace_id |-> rows[i].trace_id, transaction_amount |-> rows[i].details]]

TxRow(o, t) ==
    [timestamp |-> o.timestamp, message_type |-> o.message_type, trace_id |-> o.trace_id,
     details |-> o.details, action |-> o.action, sku |-> o.sku,
     quantity |-> SignedQuantity(o.action, AsInt(o.quantity)),
     transaction_amount |-> t.transaction_amount]

JoinOn(o, t) == o.trace_id = t.trace_id

RECURSIVE LeftMerge(_, _)
\* how="left": an order without a settlement keeps a row of its own
LeftMerge(os, ts) ==
    IF os = <<>> THEN <<>>
    ELSE LET o == Head(os)
             JoinsHead(t) == JoinOn(o, t)
             hit == SelectSeq(ts, JoinsHead)
         IN (IF hit = <<>> THEN <<TxRow(o, [transaction_amount |-> None])>>
             ELSE [j \in 1..Len(hit) |-> TxRow(o, hit[j])]) \o LeftMerge(Tail(os), ts)

RECURSIVE InnerMerge(_, _)
\* orders.merge(transactions, on="trace_id", how="inner"): for each left row
\* in order, one row per right row of the same key
InnerMerge(os, ts) ==
    IF os = <<>> THEN <<>>
    ELSE LET o == Head(os)
             JoinsHead(t) == JoinOn(o, t)
             hit == SelectSeq(ts, JoinsHead)
         IN [j \in 1..Len(hit) |-> TxRow(o, hit[j])] \o InnerMerge(Tail(os), ts)

\* [err, rows]: err names the exception raised, "" when none
ExtractTransactions(lg) ==
    LET os == ParsedOrders(lg)
    IN IF \E i \in 1..Len(os) : ~FitsInt64(os[i].quantity)
       THEN [err |-> "OverflowError", rows |-> <<>>]
       ELSE [err |-> "", rows |-> InnerMerge(os, Settlements(lg))]

----------------------------------------------------------------------------
(* read_skus, read_market_prices *)

\* the renames of read_skus that the pipeline reads afterwards
RenameSkuCol(c) ==
    CASE c = "code" -> "sku"
      [] c = "region_country_name" -> "country_name"
      [] OTHER -> c

\* [err, df].  A missing file gives pd.DataFrame(); after a JSONDecodeError
\* is logged, json_normalize(sku_data) reads a name that was never bound
ReadSkus(src) ==
    IF src.kind = "absent" THEN [err |-> "", df |-> EmptyFrame]
    ELSE IF src.kind = "badjson" THEN [err |-> "UnboundLocalError", df |-> EmptyFrame]
    ELSE [err |-> "",
          df |-> [cols |-> {RenameSkuCol(c) : c \in src.cols},
                  rows |-> [i \in 1..Len(src.rows) |->
                              [sku |-> src.rows[i].code, id |-> src.rows[i].id,
                               brand_name |-> src.rows[i].brand_name]]]]

\* quote_id.str.extract(r"^(.*?)-\d+$"): what precedes the last dash when
\* only digits follow it, NaN otherwise
QuoteSku(q) ==
    LET dashes == {i \in 1..Len(q) : q[i] = DASH}
    IN IF dashes = {} THEN None
       ELSE LET d == Max(dashes)
            IN IF d < Len(q) /\ \A j \in (d + 1)..Len(q) : q[j] \in AllDigits
               THEN Some(SubSeq(q, 1, d - 1))
               ELSE None

\* [err, df, wrote].  pd.concat of no file raises ValueError, which the
\* except turns, like any read error, into pd.DataFrame()
ReadMarketPrices(src) ==
    IF src.kind \in {"nofiles", "unreadable"}
    THEN [err |-> "", df |-> EmptyFrame, wrote |-> {}]
    ELSE IF ~({"timestamp", "quote_id"} \subseteq src.cols)
    THEN [err |-> "KeyError", df |-> EmptyFrame, wrote |-> {}]
    ELSE [err |-> "",
          df |-> [cols |-> src.cols \cup {"sku"},
                  rows |-> [i \in 1..Len(src.rows) |->
                              [quote_id |-> src.rows[i].quote_id,
                               timestamp |-> src.rows[i].timestamp,
                               price_usd |-> src.rows[i].price_usd,
                               sku |-> QuoteSku(src.rows[i].quote_id)]]],
          wrote |-> {"outputs/market_data.csv"}]

----------------------------------------------------------------------------
(* enrich_transactions *)

\* a < b as strings
LessStr(a, b) ==
    \/ Len(a) < Len(b) /\ SubSeq(b, 1, Len(a)) = a
    \/ \E i \in 1..Len(a) :
          /\ i <= Len(b)
          /\ SubSeq(a, 1, i - 1) = SubSeq(b, 1, i - 1)
          /\ SymRank(a[i]) < SymRank(b[i])

\* ascending, nulls last
LessAsc(x, y) == ~IsNull(x) /\ (IsNull(y) \/ Val(x) < Val(y))
\* descending, nulls last
LessDesc(x, y) == ~IsNull(x) /\ (IsNull(y) \/ Val(x) > Val(y))
LessStrAsc(x, y) == ~IsNull(x) /\ (IsNull(y) \/ LessStr(Val(x), Val(y)))

\* sort_values: the rows in the order given by before (before[i][j]: row i
\* sorts ahead of row j), rows that compare equal keeping their order
SortValues(rows, before) ==
    LET n == Len(rows)
        pos == [i \in 1..n |->
                  1 + Cardinality({j \in 1..n :
                        before[j][i] \/ (~before[i][j] /\ j < i)})]
    IN [p \in 1..n |-> rows[CHOOSE i \in 1..n : pos[i] = p]]

RECURSIVE Flatten(_)
Flatten(ss) == IF ss = <<>> THEN <<>> ELSE Head(ss) \o Flatten(Tail(ss))

CatalogRow(t, brand) ==
    [trace_id |-> t.trace_id, timestamp |-> t.timestamp, action |-> t.action,
     sku |-> t.sku, quantity |-> t.quantity, brand_name |-> brand]

\* transactions.merge(sku_df, on="sku", how="left")
LeftMergeSkus(txs, cat) ==
    Flatten([i \in 1..Len(txs) |->
        LET SameSku(c) == c.sku = txs[i].sku
            hit == SelectSeq(cat, SameSku)
        IN IF hit = <<>> THEN <<CatalogRow(txs[i], None)>>
           ELSE [j \in 1..Len(hit) |-> CatalogRow(txs[i], Some(hit[j].brand_name))]])

\* prices.rename(columns={"timestamp": "price_time", "price_usd": "market_price"})
RenamePriceCol(c) ==
    CASE c = "timestamp" -> "price_time"
      [] c = "price_usd" -> "market_price"
      [] OTHER -> c

RenamePrices(p) ==
    [cols |-> {RenamePriceCol(c) : c \in p.cols},
     rows |-> [i \in 1..Len(p.rows) |->
                 [sku |-> p.rows[i].sku, price_time |-> p.rows[i].timestamp,
                  market_price |-> p.rows[i].price_usd]]]

BySkuThenTime(rows) ==
    [i \in 1..Len(rows) |-> [j \in 1..Len(rows) |->
        \/ LessStr(rows[i].sku, rows[j].sku)
        \/ (rows[i].sku = rows[j].sku /\ LessAsc(rows[i].timestamp, rows[j].timestamp))]]
ByTime(rows) ==
    [i \in 1..Len(rows) |-> [j \in 1..Len(rows) |->
        LessAsc(rows[i].timestamp, rows[j].timestamp)]]
PriceBySkuThenTime(rows) ==
    [i \in 1..Len(rows) |-> [j \in 1..Len(rows) |->
        \/ LessStrAsc(rows[i].sku, rows[j].sku)
        \/ (rows[i].sku = rows[j].sku /\ LessAsc(rows[i].price_time, rows[j].price_time))]]
PriceByTime(rows) ==
    [i \in 1..Len(rows) |-> [j \in 1..Len(rows) |->
        LessAsc(rows[i].price_time, rows[j].price_time)]]

\* allow_exact_matches=False
AsofEligibleStrict(row, p) ==
    /\ ~IsNull(p.sku) /\ Val(p.sku) = row.sku
    /\ Val(p.price_time) < Val(row.timestamp)

\* by="sku", direction="backward", allow_exact_matches=True
AsofEligible(row, p) ==
    /\ ~IsNull(p.sku) /\ Val(p.sku) = row.sku
    /\ Val(p.price_time) <= Val(row.timestamp)

\* pd.merge_asof: each left row takes the last eligible row of the right
\* frame, which is sorted by price_time
MergeAsof(left, right) ==
    [i \in 1..Len(left) |->
        LET J == {j \in 1..Len(right) : AsofEligible(left[i], right[j])}
            hit == IF J = {} THEN [price_time |-> None, market_price |-> None]
                   ELSE [price_time |-> right[Max(J)].price_time,
                         market_price |-> Some(right[Max(J)].market_price)]
        IN [trace_id |-> left[i].trace_id, timestamp |-> left[i].timestamp,
            action |-> left[i].action, sku |-> left[i].sku,
            quantity |-> left[i].quantity, brand_name |-> left[i].brand_name,
            price_time |-> hit.price_time, market_price |-> hit.market_price]]

\* ascending=[True, True]
FinalOrderAscending(rows) ==
    [i \in 1..Len(rows) |-> [j \in 1..Len(rows) |->
        \/ LessStr(rows[i].trace_id, rows[j].trace_id)
        \/ (rows[i].trace_id = rows[j].trace_id
               /\ LessAsc(rows[i].price_time, rows[j].price_time))]]

\* sort_values(["trace_id", "price_time"], ascending=[True, False])
FinalOrder(rows) ==
    [i \in 1..Len(rows) |-> [j \in 1..Len(rows) |->
        \/ LessStr(rows[i].trace_id, rows[j].trace_id)
        \/ (rows[i].trace_id = rows[j].trace_id
               /\ LessDesc(rows[i].price_time, rows[j].price_time))]]

\* enriched["transaction_value"] = enriched["quantity"] * enriched["market_price"]
WithValue(r) ==
    [trace_id |-> r.trace_id, timestamp |-> r.timestamp, action |-> r.action,
     sku |-> r.sku, quantity |-> r.quantity, brand_name |-> r.brand_name,
     price_time |-> r.price_time, market_price |-> r.market_price,
     transaction_value |->
        IF IsNull(r.market_price) THEN None ELSE Some(r.quantity * Val(r.market_price))]

TxCols == {"timestamp", "message_type", "trace_id", "details", "action", "sku",
           "quantity", "transaction_amount"}
DroppedCols == {"transaction_amount", "id", "details"}
DerivedCols == {"transaction_value", "year", "quarter", "week"}

\* [err, df, wrote]
EnrichTransactions(txs, cat, pr) ==
    LET fail(e) == [err |-> e, df |-> EmptyFrame, wrote |-> {}]
        p == RenamePrices(pr)
        merged == LeftMergeSkus(txs, cat.rows)
        bysku == SortValues(merged, BySkuThenTime(merged))
        left == SortValues(bysku, ByTime(bysku))
        pbysku == SortValues(p.rows, PriceBySkuThenTime(p.rows))
        right == SortValues(pbysku, PriceByTime(pbysku))
        joined == MergeAsof(left, right)
        allcols == TxCols \cup cat.cols \cup {"price_time", "market_price"}
    IN IF "sku" \notin cat.cols THEN fail("KeyError")
       ELSE IF ~({"sku", "price_time"} \subseteq p.cols) THEN fail("KeyError")
       ELSE IF "market_price" \notin p.cols THEN fail("KeyError")
       ELSE IF \E i \in 1..Len(left) : IsNull(left[i].timestamp) THEN fail("ValueError")
       ELSE IF \E i \in 1..Len(right) : IsNull(right[i].price_time) THEN fail("ValueError")
       ELSE IF ~(DroppedCols \subseteq allcols) THEN fail("KeyError")
       ELSE [err |-> "",
             df |-> [cols |-> (allcols \cup DerivedCols) \ DroppedCols,
                     rows |-> LET sorted == SortValues(joined, FinalOrder(joined))
                              IN [i \in 1..Len(sorted) |-> WithValue(sorted[i])]],
             wrote |-> {"outputs/final_clean_dataset.csv"}]

----------------------------------------------------------------------------
(* __main__: each stage runs inside one try; "except Exception" logs the
   failure and the run ends *)

\* a raising stage still hands control to the next one
AfterStageContinues(err, next) == next

\* where the run goes after a stage that raised err ("" when it returned)
AfterStage(err, next) == IF err = "" THEN next ELSE "failed"

\* the stage is announced; logger.exception("Pipeline failed ...") when it raised
Journal(j, stage, err) ==
    IF err = "" THEN Append(j, [kind |-> "stage", at |-> stage, err |-> ""])
    ELSE j \o <<[kind |-> "stage", at |-> stage, err |-> ""],
                [kind |-> "failed", at |-> stage, err |-> err]>>

\* a reporting step catches its own exception, logs it and returns None:
\* the run goes on to the next step whatever happened
AfterStep(err, next) == next

JournalStep(j, step, err) ==
    IF err = "" THEN Append(j, [kind |-> "stage", at |-> step, err |-> ""])
    ELSE j \o <<[kind |-> "stage", at |-> step, err |-> ""],
                [kind |-> "caught", at |-> step, err |-> err]>>

\* the columns each reporting step reads: a missing one is a KeyError
RegionCols == {"sku", "year", "quarter", "region_id", "region_name", "quantity"}
BrandCols == {"year", "week", "action", "brand_id", "brand_name", "sku", "transaction_value"}
TestCaseCols == {"timestamp", "sku", "quantity"}

TransactionVolumeByRegion(enr) ==
    IF RegionCols \subseteq enr.cols
    THEN [err |-> "", wrote |-> {"outputs/top_region_per_sku.csv"}]
    ELSE [err |-> "KeyError", wrote |-> {}]

MostProfitableBrands(enr) ==
    IF BrandCols \subseteq enr.cols
    THEN [err |-> "",
          wrote |-> {"outputs/two_most_profitable_brands.csv",
                     "outputs/most_profitable_brands.csv"}]
    ELSE [err |-> "KeyError", wrote |-> {}]

\* reads back the dataset enrich_transactions wrote
GenerateTestCase(files, enr) ==
    IF "outputs/final_clean_dataset.csv" \notin files
    THEN [err |-> "FileNotFoundError", wrote |-> {}]
    ELSE IF ~(TestCaseCols \subseteq enr.cols) THEN [err |-> "KeyError", wrote |-> {}]
    ELSE [err |-> "", wrote |-> {}]

RECURSIVE MergeAll(_, _)
\* the merged text after the first n files
MergeAll(files, n) ==
    IF n = 0 THEN <<>> ELSE MergeStep(MergeAll(files, n - 1), files[n].content)

SpansOf(files) ==
    [i \in 1..Len(files) |->
        <<Len(MergeAll(files, i)) - Len(files[i].content) + 1, Len(MergeAll(files, i))>>]

\* logs = parse_logs("data/logs")
ParseLogsStage ==
    /\ pc = "parse_logs"
    /\ IF LogFilesRaises(log_dir)
       THEN /\ pc' = AfterStage("AttributeError", "read_skus")
            /\ journal' = Journal(journal, "parse_logs", "AttributeError")
            /\ UNCHANGED <<k, full_text, frag_span, matches, entries, logs, artifacts>>
       ELSE LET files == LogFiles(log_dir)
                text == MergeAll(files, Len(files))
            IN /\ k' = Len(files)
               /\ full_text' = text
               /\ frag_span' = SpansOf(files)
               /\ artifacts' = artifacts \cup {"merged_logs.txt"}
               /\ matches' = Finditer(text)
               /\ entries' = BuildEntries(text, Finditer(text))
               /\ logs' = ToLogsFrame(SplitRecords(BuildEntries(text, Finditer(text))))
               /\ pc' = AfterStage("", "read_skus")
               /\ journal' = Journal(journal, "parse_logs", "")
    /\ UNCHANGED <<log_dir, sku_src, sku_df, price_src, prices, tx, enriched>>

\* sku_df = read_skus("data/skus")
ReadSkusStage ==
    /\ pc = "read_skus"
    /\ \E r \in {ReadSkus(sku_src)} :
          /\ sku_df' = r.df
          /\ pc' = AfterStage(r.err, "read_market_prices")
          /\ journal' = Journal(journal, "read_skus", r.err)
    /\ UNCHANGED <<log_dir, k, full_text, frag_span, matches, entries, logs, sku_src,
                   price_src, prices, tx, enriched, artifacts>>

\* prices = read_market_prices("data/market_prices")
ReadPricesStage ==
    /\ pc = "read_market_prices"
    /\ \E r \in {ReadMarketPrices(price_src)} :
          /\ prices' = r.df
          /\ artifacts' = artifacts \cup r.wrote
          /\ pc' = AfterStage(r.err, "extract_transactions")
          /\ journal' = Journal(journal, "read_market_prices", r.err)
    /\ UNCHANGED <<log_dir, k, full_text, frag_span, matches, entries, logs, sku_src,
                   sku_df, price_src, tx, enriched>>

\* enriched = enrich_transactions(tx, sku_df, prices)
EnrichStage ==
    /\ pc = "enrich_transactions"
    /\ \E r \in {EnrichTransactions(tx, sku_df, prices)} :
          /\ enriched' = r.df
          /\ artifacts' = artifacts \cup r.wrote
          /\ pc' = AfterStage(r.err, "volume_by_region")
          /\ journal' = Journal(journal, "enrich_transactions", r.err)
    /\ UNCHANGED <<log_dir, k, full_text, frag_span, matches, entries, logs, sku_src,
                   sku_df, price_src, prices, tx>>

\* transaction_volume_by_region(enriched)
VolumeByRegionStep ==
    /\ pc = "volume_by_region"
    /\ \E r \in {TransactionVolumeByRegion(enriched)} :
          /\ artifacts' = artifacts \cup r.wrote
          /\ pc' = AfterStep(r.err, "profitable_brands")
          /\ journal' = JournalStep(journal, "transaction_volume_by_region", r.err)
    /\ UNCHANGED <<log_dir, k, full_text, frag_span, matches, entries, logs, sku_src,
                   sku_df, price_src, prices, tx, enriched>>

\* most_profitable_brands(enriched)
ProfitableBrandsStep ==
    /\ pc = "profitable_brands"
    /\ \E r \in {MostProfitableBrands(enriched)} :
          /\ artifacts' = artifacts \cup r.wrote
          /\ pc' = AfterStep(r.err, "test_case")
          /\ journal' = JournalStep(journal, "most_profitable_brands", r.err)
    /\ UNCHANGED <<log_dir, k, full_text, frag_span, matches, entries, logs, sku_src,
                   sku_df, price_src, prices, tx, enriched>>

\* generate_test_case()
TestCaseStep ==
    /\ pc = "test_case"
    /\ \E r \in {GenerateTestCase(artifacts, enriched)} :
          /\ pc' = AfterStep(r.err, "finish")
          /\ journal' = JournalStep(journal, "generate_test_case", r.err)
    /\ UNCHANGED <<log_dir, k, full_text, frag_span, matches, entries, logs, sku_src,
                   sku_df, price_src, prices, tx, enriched, artifacts>>

\* logger.info("Pipeline finished successfully.")
Finish ==
    /\ pc = "finish"
    /\ pc' = "finished"
    /\ journal' = Append(journal, [kind |-> "finished", at |-> "__main__", err |-> ""])
    /\ UNCHANGED <<log_dir, k, full_text, frag_span, matches, entries, logs, sku_src,
                   sku_df, price_src, prices, tx, enriched, artifacts>>

----------------------------------------------------------------------------
(* Ingestion and reconstruction, step by step, over bounded log files *)

MaxFiles == 2
MaxLines == 3

EntryLine(ts, type, trace, details) ==
    <<ts, SP, BAR, SP, type, SP, BAR, SP, trace>>
        \o (IF details = <<>> THEN <<>> ELSE <<SP, BAR, SP>> \o details)

OrderLine == EntryLine(TS1, "ORDER", "T1", <<"buy", SP, "A", SP, "5">>)
SettlementLine == EntryLine(TS2, "TRANSACTION", "T1", <<"3">>)
ShortLine == EntryLine(TS3, "TRANSACTION", "T1", <<>>)
WrappedLine == <<BAR, SP, "x">>
LinePool == {OrderLine, SettlementLine, ShortLine, WrappedLine}

RECURSIVE JoinLines(_)
JoinLines(ls) ==
    IF ls = <<>> THEN <<>>
    ELSE IF Len(ls) = 1 THEN ls[1]
    ELSE ls[1] \o <<NL>> \o JoinLines(Tail(ls))

\* the file contents of exactly n lines, with and without a final newline
Fragments(n) ==
    {JoinLines(ls) \o tail : ls \in [1..n -> LinePool], tail \in {<<>>, <<NL>>}}

RECURSIVE ContentSeqs(_, _)
\* the sequences of at most f file contents holding at most l lines together
ContentSeqs(f, l) ==
    IF f = 0 THEN {<<>>}
    ELSE {<<>>} \cup
         UNION {{<<c>> \o r : c \in Fragments(n), r \in ContentSeqs(f - 1, l - n)} : n \in 0..l}

\* the directory lists the files in the reverse of their numeric order
DirOf(cs) == [i \in 1..Len(cs) |-> [num |-> Len(cs) + 1 - i, content |-> cs[Len(cs) + 1 - i]]]

InitRest ==
    /\ k = 0 /\ full_text = <<>> /\ frag_span = <<>> /\ matches = <<>>
    /\ entries = <<>> /\ journal = <<>> /\ artifacts = {}

InitLogs ==
    /\ pc = "merge"
    /\ log_dir \in {DirOf(cs) : cs \in ContentSeqs(MaxFiles, MaxLines)}
    /\ logs = <<>> /\ tx = <<>>
    /\ sku_src = [kind |-> "absent", cols |-> {}, rows |-> <<>>] /\ sku_df = EmptyFrame
    /\ price_src = [kind |-> "nofiles", cols |-> {}, rows |-> <<>>] /\ prices = EmptyFrame
    /\ enriched = EmptyFrame
    /\ InitRest

\* one iteration of "for file in log_files"
MergeFile ==
    /\ pc = "merge" /\ k < Len(log_dir)
    /\ LET content == LogFiles(log_dir)[k + 1].content
           text == MergeStep(full_text, content)
       IN /\ full_text' = text
          /\ frag_span' = Append(frag_span, <<Len(text) - Len(content) + 1, Len(text)>>)
    /\ k' = k + 1
    /\ UNCHANGED <<pc, log_dir, matches, entries, logs, sku_src, sku_df, price_src,
                   prices, tx, enriched, journal, artifacts>>

\* the merged text is written and the entry boundaries are found
FindEntries ==
    /\ pc = "merge" /\ k = Len(log_dir)
    /\ artifacts' = artifacts \cup {"merged_logs.txt"}
    /\ matches' = Finditer(full_text)
    /\ pc' = "entries"
    /\ UNCHANGED <<log_dir, k, full_text, frag_span, entries, logs, sku_src, sku_df,
                   price_src, prices, tx, enriched, journal>>

CutEntries ==
    /\ pc = "entries"
    /\ entries' = BuildEntries(full_text, matches)
    /\ pc' = "records"
    /\ UNCHANGED <<log_dir, k, full_text, frag_span, matches, logs, sku_src, sku_df,
                   price_src, prices, tx, enriched, journal, artifacts>>

MakeRecords ==
    /\ pc = "records"
    /\ logs' = ToLogsFrame(SplitRecords(entries))
    /\ pc' = "extract_transactions"
    /\ UNCHANGED <<log_dir, k, full_text, frag_span, matches, entries, sku_src, sku_df,
                   price_src, prices, tx, enriched, journal, artifacts>>

\* extract_transactions(logs), under the try of __main__
ExtractStage ==
    /\ pc = "extract_transactions"
    /\ \E r \in {ExtractTransactions(logs)} :
          /\ tx' = r.rows
          /\ pc' = AfterStage(r.err, "enrich_transactions")
          /\ journal' = Journal(journal, "extract_transactions", r.err)
    /\ UNCHANGED <<log_dir, k, full_text, frag_span, matches, entries, logs, sku_src,
                   sku_df, price_src, prices, enriched, artifacts>>

NextLogs == MergeFile \/ FindEntries \/ CutEntries \/ MakeRecords \/ ExtractStage

SpecLogs == InitLogs /\ [][NextLogs]_vars

----------------------------------------------------------------------------
(* Properties of ingestion (SpecLogs) *)

Merged(i) == i <= Len(frag_span)
NonEmptySpan(i) == frag_span[i][1] <= frag_span[i][2]

\* C1: in the merged text a newline lies between the last character of each
\* file's content and the first character of the next file's content (either
\* of the two may be that newline), so that the two are never one line.
C1_NewlineBetweenFragments ==
    \A i \in 1..(Len(frag_span) - 1) :
        (NonEmptySpan(i) /\ NonEmptySpan(i + 1)) =>
            \E p \in frag_span[i][2]..frag_span[i + 1][1] : full_text[p] = NL

BoundaryOffsets == {p \in 1..Len(full_text) : BoundaryAt(full_text, p)}
EntriesCut == pc \in {"records", "extract_transactions", "enrich_transactions"}
RecordsMade == pc \in {"extract_transactions", "enrich_transactions"}

\* C8: the number of entries parse_logs reconstructs from the merged text is
\* the number of offsets at which the entry-boundary pattern matches, and
\* each entry starts with the text matched there.
C8_EntryCountIsMatchCount ==
    EntriesCut =>
        \A offsets \in {BoundaryOffsets} :
            /\ Len(entries) = Cardinality(offsets)
            /\ \A i \in 1..Len(entries) :
                   /\ matches[i] \in offsets
                   /\ entries[i][1] = full_text[matches[i]]

\* a timestamp in the text that starts no entry: it is not at a line start
C8_Witness ==
    /\ pc = "records"
    /\ Len(entries) >= 2
    /\ \E p \in 1..Len(full_text) :
           full_text[p] \in TimestampTokens /\ p \notin BoundaryOffsets

FieldsOf(e) == Split(e, MaxSplit)
Complete(e) == Len(FieldsOf(e)) >= NumFields
CompleteIndexes == SetToSortedSeq({i \in 1..Len(entries) : Complete(entries[i])})

\* C7: an entry of fewer than four fields is not in the frame parse_logs
\* returns; the frame holds the other entries, each with its four fields, in
\* their order in the text; and every transaction joins an order and a
\* settlement that are both entries of four fields.
C7_ShortEntriesDropped ==
    \A kept \in {IF RecordsMade THEN CompleteIndexes ELSE <<>>} :
    \A fields \in {[j \in 1..Len(kept) |-> FieldsOf(entries[kept[j]])]} :
        /\ RecordsMade =>
              /\ Len(logs) = Len(kept)
              /\ \A j \in 1..Len(logs) :
                     /\ logs[j].message_type = fields[j][2]
                     /\ logs[j].trace_id = fields[j][3]
                     /\ logs[j].details = fields[j][4]
                     /\ logs[j].timestamp = ToDatetime(fields[j][1])
        /\ pc = "enrich_transactions" =>
              \A r \in 1..Len(tx) :
                  \E i, j \in 1..Len(kept) :
                      /\ fields[i][2] = <<"ORDER">>
                      /\ fields[i][3] = tx[r].trace_id
                      /\ fields[i][4] = tx[r].details
                      /\ fields[j][2] = <<"TRANSACTION">>
                      /\ fields[j][3] = tx[r].trace_id
                      /\ fields[j][4] = tx[r].transaction_amount

\* a short entry beside two complete ones that pair into a transaction
C7_Witness ==
    /\ pc = "enrich_transactions"
    /\ \E i \in 1..Len(entries) : ~Complete(entries[i])
    /\ Len(logs) >= 2
    /\ Len(tx) >= 1

----------------------------------------------------------------------------
(* Reconstruction alone, over bounded frames of log rows (SpecTx) *)

MaxLogRows == 4

LogRowOf(type, trace, details) ==
    [timestamp |-> Some(2), message_type |-> <<type>>, trace_id |-> <<trace>>,
     details |-> details]

LogRowPool ==
    { LogRowOf("ORDER", "T1", <<"buy", SP, "A", SP, "5">>),
      LogRowOf("ORDER", "T2", <<"buy", SP, "A", SP, "5">>),
      LogRowOf("ORDER", "T1", <<"x", SP, "sell", SP, SP, "B", SP, "1", "3", "x">>),
      LogRowOf("ORDER", "T1", <<"sell", SP, "A", SP, "0">>),
      LogRowOf("ORDER", "T1", <<"buy", SP, "A">>),
      LogRowOf("ORDER", "T2", <<"buy", SP, "B", SP, BIGNUM>>),
      LogRowOf("TRANSACTION", "T1", <<"3">>),
      LogRowOf("TRANSACTION", "T2", <<"buy", SP, "A", SP, "5">>),
      LogRowOf("RESULT", "T1", <<"x">>) }

InitTx ==
    /\ pc = "extract_transactions"
    /\ logs \in SeqsUpTo(LogRowPool, MaxLogRows)
    /\ log_dir = <<>> /\ tx = <<>>
    /\ sku_src = [kind |-> "absent", cols |-> {}, rows |-> <<>>] /\ sku_df = EmptyFrame
    /\ price_src = [kind |-> "nofiles", cols |-> {}, rows |-> <<>>] /\ prices = EmptyFrame
    /\ enriched = EmptyFrame
    /\ InitRest

NextTx == ExtractStage

SpecTx == InitTx /\ [][NextTx]_vars

Extracted == pc = "enrich_transactions"

MatchesOrderPattern(d) == \E i \in 1..Len(Spell(d)) : OrderMatchAt(Spell(d), i)
TraceIdsSeen == {logs[i].trace_id : i \in 1..Len(logs)} \cup {tx[r].trace_id : r \in 1..Len(tx)}
OrderCount(c) ==
    Cardinality({i \in 1..Len(logs) :
        /\ logs[i].message_type = <<"ORDER">>
        /\ logs[i].trace_id = c
        /\ MatchesOrderPattern(logs[i].details)})
SettlementCount(c) ==
    Cardinality({i \in 1..Len(logs) :
        logs[i].message_type = <<"TRANSACTION">> /\ logs[i].trace_id = c})
RowCount(c) == Cardinality({r \in 1..Len(tx) : tx[r].trace_id = c})

\* C3: a correlation id on n ORDER entries that match the order pattern and
\* on m TRANSACTION entries has exactly m * n rows in the frame
\* extract_transactions returns.
C3_JoinCardinality ==
    Extracted => \A c \in TraceIdsSeen : RowCount(c) = SettlementCount(c) * OrderCount(c)

\* two orders and two settlements of one id
C3_Witness ==
    /\ Extracted
    /\ \E c \in TraceIdsSeen : OrderCount(c) = 2 /\ SettlementCount(c) = 2 /\ RowCount(c) = 4

\* the integer the order pattern finds written in the details
WrittenQuantity(d) == AsInt(Val(ExtractOrder(d).quantity))

\* C4: a row of extract_transactions whose written quantity is not zero has a
\* strictly negative quantity when its action is buy and a strictly positive
\* one when it is sell, of the written magnitude.
C4_SignedQuantity ==
    Extracted =>
        \A r \in 1..Len(tx) :
            LET w == WrittenQuantity(tx[r].details)
            IN w # 0 =>
                 /\ tx[r].action \in ActionTokens
                 /\ tx[r].action = "buy" => (tx[r].quantity < 0 /\ -tx[r].quantity = w)
                 /\ tx[r].action = "sell" => (tx[r].quantity > 0 /\ tx[r].quantity = w)

\* a purchase, a sale of a two-digit quantity, and an order of quantity zero
C4_Witness ==
    /\ Extracted
    /\ \E r \in 1..Len(tx) : tx[r].action = "buy" /\ tx[r].quantity = -5
    /\ \E r \in 1..Len(tx) : tx[r].action = "sell" /\ tx[r].quantity = 13
    /\ \E r \in 1..Len(tx) : tx[r].quantity = 0

----------------------------------------------------------------------------
(* Enrichment alone, over bounded transactions and price points (SpecEnrich) *)

MaxTxRows == 3
MaxPriceRows == 2

FullCatalogCols ==
    {"id", "code", "brand_id", "brand_name", "region_id", "region_name",
     "region_country_name"}
Catalog(cols) ==
    [kind |-> "ok", cols |-> cols,
     rows |-> <<[code |-> <<"A">>, id |-> 1, brand_name |-> "Opus One"]>>]
PriceCols == {"quote_id", "timestamp", "price_usd"}
PricePoint(sku, n, time, price) ==
    [quote_id |-> <<sku, DASH, n>>, timestamp |-> time, price_usd |-> price]
PriceFiles(rows) == [kind |-> "ok", cols |-> PriceCols, rows |-> rows]

TxOf(trace, sku, time) ==
    [timestamp |-> Some(time), message_type |-> <<"ORDER">>, trace_id |-> <<trace>>,
     details |-> <<"sell", SP, sku, SP, "3">>, action |-> "sell", sku |-> <<sku>>,
     quantity |-> 3, transaction_amount |-> <<"3">>]

TxPool ==
    {TxOf("T1", "A", 2), TxOf("T1", "A", 3), TxOf("T2", "A", 2), TxOf("T2", "B", 2)}
PricePointPool ==
    {PricePoint("A", "1", Some(1), 10), PricePoint("A", "3", Some(2), 20),
     PricePoint("A", "5", Some(2), 21), PricePoint("A", "0", Some(3), 30),
     PricePoint("B", "1", Some(1), 11)}

InitEnrich ==
    /\ pc = "enrich_transactions"
    /\ tx \in SeqsUpTo(TxPool, MaxTxRows)
    /\ sku_src = Catalog(FullCatalogCols)
    /\ sku_df = ReadSkus(sku_src).df
    /\ price_src \in {PriceFiles(rows) : rows \in SeqsUpTo(PricePointPool, MaxPriceRows)}
    /\ prices = ReadMarketPrices(price_src).df
    /\ log_dir = <<>> /\ logs = <<>>
    /\ enriched = EmptyFrame
    /\ InitRest

NextEnrich == EnrichStage

SpecEnrich == InitEnrich /\ [][NextEnrich]_vars

Enriched == pc \in {"volume_by_region", "profitable_brands", "test_case", "finish", "finished"}

\* the price points of the row's sku that are not later than the row
EligiblePoints(r) ==
    {j \in 1..Len(prices.rows) :
        /\ prices.rows[j].sku = Some(r.sku)
        /\ ~IsNull(prices.rows[j].timestamp)
        /\ Val(prices.rows[j].timestamp) <= Val(r.timestamp)}

\* C2: a row of enrich_transactions with a market price has it from a price
\* point of its sku whose time is at most the row's timestamp (equal
\* allowed) and no such point of the sku is later; a row whose sku has no
\* point at or before its timestamp has a null market price.
C2_BackwardAsof ==
    Enriched =>
        \A i \in 1..Len(enriched.rows) :
            LET r == enriched.rows[i]
            IN /\ ~IsNull(r.market_price) =>
                     \E j \in EligiblePoints(r) :
                         /\ prices.rows[j].price_usd = Val(r.market_price)
                         /\ prices.rows[j].timestamp = r.price_time
                         /\ \A j2 \in EligiblePoints(r) :
                                Val(prices.rows[j2].timestamp) <= Val(prices.rows[j].timestamp)
               /\ EligiblePoints(r) = {} => IsNull(r.market_price)

\* a row priced by a point of its own timestamp although an earlier point
\* exists, and a row with no point to take
C2_Witness ==
    /\ Enriched
    /\ \E i \in 1..Len(enriched.rows) :
          /\ enriched.rows[i].price_time = enriched.rows[i].timestamp
          /\ Cardinality(EligiblePoints(enriched.rows[i])) >= 2
    /\ \E i \in 1..Len(enriched.rows) :
          IsNull(enriched.rows[i].market_price)

\* C9 as stated: both keys descending.
C9_SortedDescending ==
    Enriched =>
        \A i \in 1..(Len(enriched.rows) - 1) :
            LET a == enriched.rows[i]
                b == enriched.rows[i + 1]
            IN /\ ~LessStr(a.trace_id, b.trace_id)
               /\ (a.trace_id = b.trace_id /\ ~IsNull(a.price_time) /\ ~IsNull(b.price_time))
                      => Val(a.price_time) >= Val(b.price_time)

\* C9 (amended): the rows are in ascending order of correlation id; among
\* rows of one correlation id the matched price_time descends, rows without
\* a match last.
C9_SortedTraceAscTimeDesc ==
    Enriched =>
        \A i \in 1..(Len(enriched.rows) - 1) :
            LET a == enriched.rows[i]
                b == enriched.rows[i + 1]
            IN /\ a.trace_id = b.trace_id \/ LessStr(a.trace_id, b.trace_id)
               /\ a.trace_id = b.trace_id =>
                     /\ IsNull(a.price_time) => IsNull(b.price_time)
                     /\ (~IsNull(a.price_time) /\ ~IsNull(b.price_time))
                            => Val(a.price_time) >= Val(b.price_time)

\* two correlation ids, and one of them with two different matched times
C9_Witness ==
    /\ Enriched
    /\ \E i, j \in 1..Len(enriched.rows) :
          /\ i < j
          /\ enriched.rows[i].trace_id = enriched.rows[j].trace_id
          /\ ~IsNull(enriched.rows[i].price_time)
          /\ ~IsNull(enriched.rows[j].price_time)
          /\ Val(enriched.rows[i].price_time) > Val(enriched.rows[j].price_time)
    /\ \E i, j \in 1..Len(enriched.rows) :
          enriched.rows[i].trace_id # enriched.rows[j].trace_id

----------------------------------------------------------------------------
(* The whole run of __main__ (Spec) *)

File(num, content) == [num |-> num, content |-> content]
Lines2(a, b) == a \o <<NL>> \o b
BuyA == EntryLine(TS2, "ORDER", "T1", <<"buy", SP, "A", SP, "5">>)
SellB == EntryLine(TS3, "ORDER", "T2", <<"sell", SP, "B", SP, "3">>)
PaidT1 == EntryLine(TS2, "TRANSACTION", "T1", <<"1", "3">>)
PaidT2 == EntryLine(TS3, "TRANSACTION", "T2", <<"5">>)
BuyUndated == EntryLine(TSBAD, "ORDER", "T1", <<"buy", SP, "A", SP, "5">>)
BuyTooMany == EntryLine(TS2, "ORDER", "T1", <<"buy", SP, "A", SP, BIGNUM>>)

LogDirPool ==
    { <<File(1, Lines2(BuyA, PaidT1) \o <<NL>>)>>,
      <<File(2, Lines2(SellB, PaidT2) \o <<NL>>), File(1, Lines2(BuyA, PaidT1) \o <<NL>>)>>,
      <<File(1, BuyA), File(2, PaidT1)>>,
      <<File(1, Lines2(BuyA, PaidT1)), File(0, SellB)>>,
      <<File(1, Lines2(BuyUndated, PaidT1))>>,
      <<File(1, Lines2(BuyTooMany, PaidT1))>>,
      <<File(1, Lines2(Lines2(BuyA, ShortLine), PaidT1))>>,
      <<>> }

CatalogPool ==
    { [kind |-> "absent", cols |-> {}, rows |-> <<>>],
      [kind |-> "badjson", cols |-> {}, rows |-> <<>>],
      Catalog(FullCatalogCols),
      Catalog(FullCatalogCols \ {"region_id", "region_name"}),
      Catalog(FullCatalogCols \ {"brand_id", "brand_name"}),
      Catalog(FullCatalogCols \ {"id"}),
      Catalog(FullCatalogCols \ {"code"}) }

GoodPrices ==
    <<PricePoint("A", "1", Some(1), 10), PricePoint("B", "1", Some(1), 11),
      PricePoint("A", "3", Some(3), 30)>>

PriceSrcPool ==
    { [kind |-> "nofiles", cols |-> {}, rows |-> <<>>],
      [kind |-> "unreadable", cols |-> {}, rows |-> <<>>],
      PriceFiles(GoodPrices),
      PriceFiles(<<PricePoint("A", "1", None, 10)>>),
      PriceFiles(<<[quote_id |-> <<"A", DASH, "x">>, timestamp |-> Some(1), price_usd |-> 10]>>),
      [kind |-> "ok", cols |-> PriceCols \ {"timestamp"}, rows |-> GoodPrices] }

Init ==
    /\ pc = "parse_logs"
    /\ log_dir \in LogDirPool
    /\ sku_src \in CatalogPool
    /\ price_src \in PriceSrcPool
    /\ logs = <<>> /\ tx = <<>>
    /\ sku_df = EmptyFrame /\ prices = EmptyFrame /\ enriched = EmptyFrame
    /\ InitRest

Next ==
    \/ ParseLogsStage
    \/ ReadSkusStage
    \/ ReadPricesStage
    \/ ExtractStage
    \/ EnrichStage
    \/ VolumeByRegionStep
    \/ ProfitableBrandsStep
    \/ TestCaseStep
    \/ Finish

Spec == Init /\ [][Next]_vars

Announced(stage) == \E i \in 1..Len(journal) : journal[i].kind = "stage" /\ journal[i].at = stage
EnrichmentRan == Announced("enrich_transactions") /\ pc # "enrich_transactions"
TimestampsKnown == \A r \in 1..Len(tx) : ~IsNull(tx[r].timestamp)
PricesUsable ==
    /\ price_src.kind = "ok" /\ PriceCols \subseteq price_src.cols
    /\ \A i \in 1..Len(price_src.rows) : ~IsNull(price_src.rows[i].timestamp)
CatalogUsable == sku_src.kind = "ok" /\ sku_src.cols = FullCatalogCols

\* C5: with no catalog file (and usable prices and timestamps) a run that has
\* transactions goes through enrichment, and every transaction is in the
\* enriched frame with null catalog metadata.
C5_AbsentCatalogEnriches ==
    (sku_src.kind = "absent" /\ EnrichmentRan /\ PricesUsable /\ TimestampsKnown
        /\ Len(tx) >= 1) =>
        /\ pc # "failed"
        /\ Len(enriched.rows) = Len(tx)
        /\ \A r \in 1..Len(tx) :
               \E i \in 1..Len(enriched.rows) :
                   /\ enriched.rows[i].trace_id = tx[r].trace_id
                   /\ IsNull(enriched.rows[i].brand_name)

\* C6: with the price files missing or unreadable (and a usable catalog)
\* enrichment of a run that has transactions completes, with one row per
\* transaction, each of null market_price and transaction_value.
C6_NoPricesEnriches ==
    (price_src.kind \in {"nofiles", "unreadable"} /\ EnrichmentRan /\ CatalogUsable
        /\ TimestampsKnown /\ Len(tx) >= 1) =>
        /\ pc # "failed"
        /\ Len(enriched.rows) = Len(tx)
        /\ \A i \in 1..Len(enriched.rows) :
               /\ IsNull(enriched.rows[i].market_price)
               /\ IsNull(enriched.rows[i].transaction_value)

Failure(e) == e.kind \in {"failed", "caught"}
CoreStages ==
    {"parse_logs", "read_skus", "read_market_prices", "extract_transactions",
     "enrich_transactions"}
ReportingSteps ==
    {"transaction_volume_by_region", "most_profitable_brands", "generate_test_case"}

\* C10 as stated: once any stage or reporting step has failed and the failure
\* is logged, nothing later runs and the run does not finish successfully.
C10_AnyFailureAborts ==
    \A i \in 1..Len(journal) :
        Failure(journal[i]) => (i = Len(journal) /\ pc # "finished" /\ pc # "finish")

\* C10 (amended): an exception that escapes parse_logs, read_skus,
\* read_market_prices, extract_transactions or enrich_transactions is logged
\* by __main__, no later stage runs and the run ends without finishing
\* successfully and without raising; an exception inside a reporting step is
\* logged by that step and the run continues with the next step, up to
\* "finished successfully".
C10_EscapedFailureAborts ==
    /\ \A i \in 1..Len(journal) :
          /\ journal[i].kind = "failed" =>
                /\ i = Len(journal)
                /\ pc = "failed"
                /\ journal[i].at \in CoreStages
                /\ i > 1 /\ journal[i - 1] = [kind |-> "stage", at |-> journal[i].at, err |-> ""]
          /\ journal[i].kind = "caught" =>
                /\ journal[i].at \in ReportingSteps
                /\ pc \in {"profitable_brands", "test_case", "finish", "finished"}
                /\ (i < Len(journal) => ~Failure(journal[i + 1]))
    /\ pc = "failed" => (journal # <<>> /\ journal[Len(journal)].kind = "failed")
    /\ pc = "failed" <=>
          \/ (Announced("parse_logs") /\ LogFilesRaises(log_dir))
          \/ (Announced("read_skus") /\ ReadSkus(sku_src).err # "")
          \/ (Announced("read_market_prices") /\ ReadMarketPrices(price_src).err # "")
          \/ (Announced("extract_transactions") /\ ExtractTransactions(logs).err # "")
          \/ (Announced("enrich_transactions") /\ pc # "enrich_transactions"
                /\ EnrichTransactions(tx, sku_df, prices).err # "")
    /\ pc = "finished" =>
          /\ journal[Len(journal)].kind = "finished"
          /\ \A st \in CoreStages \cup ReportingSteps : Announced(st)

\* a run that finished although a reporting step failed
C10_Witness ==
    /\ pc = "finished"
    /\ \E i \in 1..Len(journal) : journal[i].kind = "caught"

\* a run that an escaped exception ended
C10_WitnessAborted ==
    /\ pc = "failed"
    /\ journal[Len(journal)].at = "enrich_transactions"

====
